---- MODULE Spec2Model ----
(***************************************************************************)
(* A model of waffle_league's DataAnalyzer (src/src/data/analyzer.py) and  *)
(* of its entry point (src/src/main.py): the matchup collector with its    *)
(* bounded retry, the record constructor, the ranked statistics (merge     *)
(* select of the all-time extremes, lowest winning totals, season points   *)
(* allowed, winning and losing streaks) and the report file.               *)
(*                                                                         *)
(* Scores are integers in units of 0.005 point, so that round(x, 2) has    *)
(* something to round.  A team is the first listed owner's first and last  *)
(* name; a coach is the display name built from them.                      *)
(***************************************************************************)
EXTENDS Integers, Sequences, FiniteSets, TLC

VARIABLES
    matchups,                 \* self.matchups
    regular_season_matchups,  \* self.regular_season_matchups
    file,                     \* the lines of self.output_file
    opens,                    \* the modes the file was opened in, in order (history)
    pc,                       \* where the running operation stands
    year, week, retry,        \* get_data / _get_matchups loop variables
    current_week,             \* league.current_week of the league of `year`
    end_year,                 \* get_data's end_year argument
    now_year,                 \* datetime.now().year
    attempts,                 \* scoreboard calls made for the current week (history)
    raw_log,                  \* the raw matchup each record was built from (history)
    n,                        \* number_of_totals / number_of_teams / number_of_streaks
    i,                        \* the loop index of the running operation
    sorted_winner_matchups,   \* highest/lowest_score_all_time's candidate lists
    sorted_loser_matchups,
    winner_pointer,
    loser_pointer,
    emitted,                  \* the entries a merge select wrote, with their list (history)
    top_results,              \* what lowest_winning_point_totals returns
    regular_season_only,      \* the argument of streaks / season_points_allowed
    coaches,                  \* streaks: the coaches the for loop has still to visit
    coach,                    \* streaks: the coach visited last
    win_streak, loss_streak,  \* streaks: the counters at the end of that coach's walk
    winning_streaks,          \* streaks: the two ranked lists
    losing_streaks,
    walk_log,                 \* the insertions that coach's walk attempted (history)
    closed,                   \* the lengths submitted so far, by kind (history)
    reports,                  \* the block each completed streaks call wrote (history)
    calls,                    \* how many times the caller invokes streaks
    start_year,               \* season_points_allowed's start_year argument
    allowed_end_year,         \* season_points_allowed's end_year argument
    points_allowed,           \* season_points_allowed's dictionary, in insertion order
    main_at                   \* the line of main that is running (0: not run from main)

collectVarsButPc == <<year, week, retry, current_week, end_year, now_year, attempts, raw_log>>
collectVars == <<pc, year, week, retry, current_week, end_year, now_year, attempts, raw_log>>
dataVars == <<matchups, regular_season_matchups>>
fileVars == <<file, opens>>
mergeVars == <<sorted_winner_matchups, sorted_loser_matchups, winner_pointer, loser_pointer,
               emitted>>
streakVars == <<regular_season_only, coaches, coach, win_streak, loss_streak,
                winning_streaks, losing_streaks, walk_log, closed, reports, calls>>
allowedVars == <<start_year, allowed_end_year, points_allowed>>
statVars == <<n, i, mergeVars, top_results, streakVars, allowedVars>>
\* everything the collector leaves alone
reportVars == <<fileVars, statVars, main_at>>

StatIdle ==
    /\ i = 0
    /\ sorted_winner_matchups = <<>>
    /\ sorted_loser_matchups = <<>>
    /\ winner_pointer = 0
    /\ loser_pointer = 0
    /\ emitted = <<>>
    /\ top_results = <<>>
    /\ coaches = {}
    /\ coach = ""
    /\ win_streak = 0
    /\ loss_streak = 0
    /\ winning_streaks = <<>>
    /\ losing_streaks = <<>>
    /\ walk_log = <<>>
    /\ closed = [winning |-> <<>>, losing |-> <<>>]
    /\ reports = <<>>
    /\ points_allowed = <<>>

-----------------------------------------------------------------------------
(* Bounds and program constants *)

MaxWeeks == 2          \* league.current_week is at most this
FirstYear == 2023      \* get_data(start_year=2023, ...)
Retries == 3           \* for retry in range(3)

Years == {FirstYear, FirstYear + 1}

\* the operation is not called from main, and is not season_points_allowed
NoCaller ==
    /\ main_at = 0
    /\ start_year = FirstYear
    /\ allowed_end_year = FirstYear

REGULAR == "NONE"
PLAYOFF == "WINNER_BRACKET"

Abs(x) == IF x < 0 THEN -x ELSE x

-----------------------------------------------------------------------------
(* Data model *)

Owner(first, last) == [firstName |-> first, lastName |-> last]

TeamA == Owner("Al", "Ames")
TeamB == Owner("Bo", "Burr")
TeamC == Owner("Cy", "Cole")
TeamD == Owner("Di", "Dunn")

\* matchup.winner.owners[0].get('firstName') + " " + matchup.winner.owners[0].get('lastName')
CoachName(team) == team.firstName \o " " \o team.lastName

\* Python's round(x, 2) on a value x given in units of 0.005: the closest
\* multiple of 0.01 (2 units), a tie going to the even multiple of 0.01.
Round2(x) ==
    IF x % 2 = 0 THEN x
    ELSE IF ((x - 1) \div 2) % 2 = 0 THEN x - 1 ELSE x + 1

RawMatchup(ht, hs, at, as, type) ==
    [home_team |-> ht, home_score |-> hs, away_team |-> at, away_score |-> as,
     is_playoff |-> (type # REGULAR), matchup_type |-> type]

DifferenceNoAbs(m) == Round2(m.home_score - m.away_score)

\* difference=round(abs(matchup.home_score - matchup.away_score), 2)
Difference(m) == Round2(Abs(m.home_score - m.away_score))

\* matchup.home_score > matchup.away_score, the test of all four conditionals
HomeWins(m) == m.home_score > m.away_score

\* DateMatchup(...) as _get_matchups builds it
DateMatchup(m, w, y) ==
    [winner       |-> IF HomeWins(m) THEN m.home_team ELSE m.away_team,
     winner_score |-> IF HomeWins(m) THEN m.home_score ELSE m.away_score,
     loser        |-> IF HomeWins(m) THEN m.away_team ELSE m.home_team,
     loser_score  |-> IF HomeWins(m) THEN m.away_score ELSE m.home_score,
     difference   |-> Difference(m),
     is_playoff   |-> m.is_playoff,
     matchup_type |-> m.matchup_type,
     week         |-> w,
     year         |-> y]

RECURSIVE SelectSeqBy(_, _)
\* the subsequence of the records whose matchup_type is `type`
SelectSeqBy(seq, type) ==
    IF seq = <<>> THEN <<>>
    ELSE (IF Head(seq).matchup_type = type THEN <<Head(seq)>> ELSE <<>>)
         \o SelectSeqBy(Tail(seq), type)

IsRegularAlways(m) == TRUE

\* if matchup.matchup_type == "NONE"
IsRegular(m) == m.matchup_type = REGULAR

RECURSIVE AppendWeek(_, _, _, _)
\* the for loop over weekly_matchups: <<matchups, regular_season_matchups>> after it
AppendWeek(all, reg, sb, wy) ==
    IF sb = <<>> THEN <<all, reg>>
    ELSE LET rec == DateMatchup(Head(sb), wy[1], wy[2])
         IN  AppendWeek(Append(all, rec),
                        IF IsRegular(Head(sb)) THEN Append(reg, rec) ELSE reg,
                        Tail(sb), wy)

-----------------------------------------------------------------------------
(* The report file *)

\* _write_to_file: mode 'a' adds the line, mode 'w' truncates first
WriteToFile(f, content, append) ==
    IF append THEN Append(f, content) ELSE <<content>>

OpenMode(append) == IF append THEN "a" ELSE "w"

-----------------------------------------------------------------------------
(* The Matchup Collector: get_data and _get_matchups *)

\* The scores a scoreboard of the collector's runs reports: 0.005 and 0.02 point
CollectScores == {1, 4}

\* What league.scoreboard(week) may return in the collector's runs: a regular
\* season matchup with any of the scores, or a playoff matchup the home team
\* wins or ties
Scoreboards ==
    { <<RawMatchup(TeamA, hs, TeamB, as, REGULAR)>> :
        hs \in CollectScores, as \in CollectScores }
    \cup { <<RawMatchup(TeamA, hs, TeamB, 1, PLAYOFF)>> : hs \in CollectScores }

CollectInit ==
    /\ matchups = <<>>
    /\ regular_season_matchups = <<>>
    /\ file = <<>>
    /\ opens = <<>>
    /\ pc = "new_year"
    /\ year = FirstYear
    /\ week = 0
    /\ retry = 0
    /\ current_week = 0
    /\ end_year \in Years
    /\ now_year \in {end_year, end_year + 1}
    /\ attempts = 0
    /\ raw_log = <<>>
    /\ n = 0
    /\ regular_season_only = TRUE
    /\ calls = 0
    /\ StatIdle
    /\ NoCaller

\* for year in range(start_year, end_year + 1): league = League(...)
NewLeague ==
    /\ pc = "new_year"
    /\ year <= end_year
    /\ \E cw \in 1..MaxWeeks : current_week' = cw
    /\ week' = 1
    /\ pc' = "week"
    /\ UNCHANGED <<year, retry, end_year, now_year, attempts, raw_log>>
    /\ UNCHANGED <<dataVars, reportVars>>

\* the range of years is exhausted: get_data returns
GetDataReturn ==
    /\ pc = "new_year"
    /\ year > end_year
    /\ pc' = "done"
    /\ UNCHANGED <<year, week, retry, current_week, end_year, now_year, attempts, raw_log>>
    /\ UNCHANGED <<dataVars, reportVars>>

\* if year == current_year and week == league.current_week: continue
SkipsWeek == year = now_year /\ week = current_week

\* for week in range(1, league.current_week + 1), up to the retry loop
WeekBegin ==
    /\ pc = "week"
    /\ week <= current_week
    /\ IF SkipsWeek
       THEN /\ week' = week + 1
            /\ UNCHANGED <<pc, retry, attempts>>
       ELSE /\ pc' = "fetch"
            /\ retry' = 0
            /\ attempts' = 0
            /\ UNCHANGED week
    /\ UNCHANGED <<year, current_week, end_year, now_year, raw_log>>
    /\ UNCHANGED <<dataVars, reportVars>>

\* the weeks of the year are exhausted: _get_matchups returns
YearEnd ==
    /\ pc = "week"
    /\ week > current_week
    /\ year' = year + 1
    /\ pc' = "new_year"
    /\ UNCHANGED <<week, retry, current_week, end_year, now_year, attempts, raw_log>>
    /\ UNCHANGED <<dataVars, reportVars>>

LastRetryLate == retry = Retries

\* if retry == 2
LastRetry == retry = Retries - 1

\* league.scoreboard(week) times out: except TimeoutError
ScoreboardTimeout ==
    /\ pc = "fetch"
    /\ retry < Retries
    /\ attempts' = attempts + 1
    /\ IF LastRetry
       THEN pc' = "failed" /\ UNCHANGED retry
       ELSE retry' = retry + 1 /\ UNCHANGED pc
    /\ UNCHANGED <<year, week, current_week, end_year, now_year, raw_log>>
    /\ UNCHANGED <<dataVars, reportVars>>

\* league.scoreboard(week) returns: break, then the loop over weekly_matchups
ScoreboardReturn ==
    /\ pc = "fetch"
    /\ retry < Retries
    /\ \E sb \in Scoreboards :
         LET both == AppendWeek(matchups, regular_season_matchups, sb, <<week, year>>)
         IN  /\ matchups' = both[1]
             /\ regular_season_matchups' = both[2]
             /\ raw_log' = raw_log \o sb
    /\ attempts' = attempts + 1
    /\ week' = week + 1
    /\ pc' = "week"
    /\ UNCHANGED <<year, retry, current_week, end_year, now_year>>
    /\ UNCHANGED reportVars

CollectNext ==
    \/ NewLeague
    \/ GetDataReturn
    \/ WeekBegin
    \/ YearEnd
    \/ ScoreboardTimeout
    \/ ScoreboardReturn

vars == <<dataVars, collectVars, reportVars>>

SpecCollect == CollectInit /\ [][CollectNext]_vars

-----------------------------------------------------------------------------
(* Claims about the collector *)

IsPrefix(s, t) == Len(s) <= Len(t) /\ SubSeq(t, 1, Len(s)) = s

\* C4: for each week fetched the scoreboard call is attempted at most 3 times;
\* an attempt that returns ends the retrying and appends that week's matchups;
\* a timeout on attempt 1 or 2 leads to another attempt; a timeout on the 3rd
\* attempt ends the collection as failed with nothing appended for that week,
\* and nothing is fetched or appended after the failure.
C4_BoundedRetry ==
    /\ [](attempts <= 3)
    /\ [][attempts' # attempts /\ attempts' # 0 =>
            /\ pc = "fetch"
            /\ attempts' = attempts + 1
            /\ \/ /\ pc' = "week"
                  /\ week' = week + 1
                  /\ IsPrefix(matchups, matchups')
                  /\ Len(matchups') > Len(matchups)
                  /\ \A j \in (Len(matchups) + 1)..Len(matchups') :
                        matchups'[j].week = week /\ matchups'[j].year = year
               \/ /\ attempts < 2
                  /\ pc' = "fetch"
                  /\ week' = week /\ year' = year
                  /\ UNCHANGED dataVars
               \/ /\ attempts = 2
                  /\ pc' = "failed"
                  /\ UNCHANGED dataVars]_vars
    /\ [][pc # "failed"]_vars

\* C4 witness: the third attempt of a later week timed out after an earlier
\* week had been collected.
C4_Witness == pc = "failed" /\ attempts = 3 /\ matchups # <<>>

\* C5: every record the collector built has winner_score >= loser_score, a
\* difference that is the multiple of 0.01 nearest to winner_score - loser_score,
\* and the home and away teams as its winner and loser (equal scores included);
\* a record, once appended, is never changed, removed or moved.
C5_RecordInvariant ==
    /\ [](/\ Len(raw_log) = Len(matchups)
          /\ \A j \in 1..Len(matchups) :
               LET r == matchups[j]
                   raw == raw_log[j]
               IN  /\ r.winner_score >= r.loser_score
                   /\ r.difference % 2 = 0
                   /\ Abs(r.difference - (r.winner_score - r.loser_score)) <= 1
                   /\ Abs(r.difference - Abs(raw.home_score - raw.away_score)) <= 1
                   /\ {r.winner, r.loser} = {raw.home_team, raw.away_team})
    /\ [][IsPrefix(matchups, matchups')]_vars

\* C5 witness: a record built from equal scores, with a later record after it.
C5_Witness ==
    /\ Len(matchups) >= 2
    /\ raw_log[1].home_score = raw_log[1].away_score
    /\ matchups[1].winner = raw_log[1].away_team
    /\ matchups[2].difference # 0

\* the record at j is not later than the record at k, by (year, week)
NotLater(seq, j, k) ==
    \/ seq[j].year < seq[k].year
    \/ seq[j].year = seq[k].year /\ seq[j].week <= seq[k].week

\* C11: after any prefix of a collection, matchups is ordered non-decreasing by
\* (year, week) and regular_season_matchups is exactly the subsequence, in the
\* same order, of the records of matchups tagged as regular season; both lists
\* only grow at the end.
C11_OrderedAndPartitioned ==
    /\ [](/\ \A j \in 1..Len(matchups), k \in 1..Len(matchups) :
               j < k => NotLater(matchups, j, k)
          /\ regular_season_matchups
               = SelectSeq(matchups, LAMBDA r : r.matchup_type = "NONE"))
    /\ [][/\ IsPrefix(matchups, matchups')
          /\ IsPrefix(regular_season_matchups, regular_season_matchups')]_vars

\* C11 witness: the collection has gathered two seasons, with a playoff record
\* between two regular-season records.
C11_Witness ==
    /\ Len(matchups) >= 3
    /\ Len(regular_season_matchups) >= 2
    /\ matchups[1].year < matchups[Len(matchups)].year
    /\ \E j \in 2..(Len(matchups) - 1) :
         /\ matchups[j].matchup_type # "NONE"
         /\ matchups[j - 1].matchup_type = "NONE"
         /\ matchups[j + 1].matchup_type = "NONE"

-----------------------------------------------------------------------------
(* Python's sorted() and slicing *)

Min(a, b) == IF a <= b THEN a ELSE b

\* sorted() is stable, with reverse=True too: x goes after every element it
\* does not strictly precede
\* the sort key: one field, or the tuple (x.year, x.week)
KeyOf(x, key) == IF key = "year, week" THEN <<x.year, x.week>> ELSE <<x[key], 0>>

\* a <= b for two such keys, compared as Python compares tuples
KeyLeq(a, b) == a[1] < b[1] \/ (a[1] = b[1] /\ a[2] <= b[2])

InsertStable(sorted, x, key, reverse) ==
    LET Stays(y) == IF reverse THEN KeyLeq(KeyOf(x, key), KeyOf(y, key))
                               ELSE KeyLeq(KeyOf(y, key), KeyOf(x, key))
        \* `sorted` is in order: if its last element stays before x, all do
        k == IF sorted # <<>> /\ Stays(sorted[Len(sorted)])
             THEN Len(sorted)
             ELSE Cardinality({j \in 1..Len(sorted) : Stays(sorted[j])})
    IN  IF k = Len(sorted) THEN Append(sorted, x)
        ELSE SubSeq(sorted, 1, k) \o <<x>> \o SubSeq(sorted, k + 1, Len(sorted))

RECURSIVE SortedBy(_, _, _)
\* sorted(seq, key=lambda x: x.<key>, reverse=reverse)
SortedBy(seq, key, reverse) ==
    IF seq = <<>> THEN <<>>
    ELSE InsertStable(SortedBy(SubSeq(seq, 1, Len(seq) - 1), key, reverse),
                      seq[Len(seq)], key, reverse)

\* seq[:count] for count >= 0
Take(seq, count) == SubSeq(seq, 1, Min(count, Len(seq)))

\* one line of the report: the f-string's fixed text and what it interpolates
Line(text, names, nums) == [text |-> text, names |-> names, nums |-> nums]

\* self._write_to_file("=" * 50)
Separator == Line("==================================================", <<>>, <<>>)

RECURSIVE WriteAll(_, _)
\* _write_to_file(line), with its default append=True, for each line in turn
WriteAll(f, lines) ==
    IF lines = <<>> THEN f
    ELSE WriteAll(WriteToFile(f, Head(lines), TRUE), Tail(lines))

\* the modes those writes opened the file in
Opened(modes, lines) == modes \o [j \in 1..Len(lines) |-> OpenMode(TRUE)]

-----------------------------------------------------------------------------
(* The score rankings: highest_score_all_time, lowest_score_all_time,      *)
(* lowest_winning_point_totals                                             *)

MaxMatchups == 3       \* the record sets of the score rankings hold at most this many

\* The scores of those record sets: 0.01, 0.015 and 0.03 point
RankScores == {2, 3, 6}

\* The raw matchups of those record sets: TeamA at home against TeamB
RankRaws ==
    { <<hs, as>> \in RankScores \X RankScores : hs >= as }

\* A season of `len` weeks of one matchup each, the first `reg` of them regular
RankSeason(len, reg, scores) ==
    [j \in 1..len |->
        DateMatchup(RawMatchup(TeamA, scores[j][1], TeamB, scores[j][2],
                               IF j <= reg THEN REGULAR ELSE PLAYOFF),
                    j, FirstYear)]

ScoresInit ==
    /\ \E len \in 0..MaxMatchups :
         \E reg \in 0..len, scores \in [1..len -> RankRaws] :
            /\ matchups = RankSeason(len, reg, scores)
            /\ regular_season_matchups = SelectSeqBy(RankSeason(len, reg, scores), REGULAR)
    /\ file = <<>>
    /\ opens = <<>>
    /\ pc = "idle"
    /\ year = FirstYear
    /\ week = 0
    /\ retry = 0
    /\ current_week = 0
    /\ end_year = FirstYear
    /\ now_year = FirstYear
    /\ attempts = 0
    /\ raw_log = <<>>
    /\ n \in 0..(MaxMatchups + 1)
    /\ regular_season_only = TRUE
    /\ calls = 0
    /\ StatIdle
    /\ NoCaller

\* #{i}: {first} {last} scored {score} points in week {week} of {year}.
ScoredLine(rank, team, score, m) ==
    Line("scored", <<CoachName(team)>>, <<rank, score, m.week, m.year>>)

\* highest_score_all_time up to its loop: the two candidate lists, the header
HighestBegin ==
    /\ pc = "idle"
    /\ sorted_winner_matchups' = Take(SortedBy(matchups, "winner_score", TRUE), n)
    /\ sorted_loser_matchups' = Take(SortedBy(matchups, "loser_score", TRUE), n)
    /\ file' = WriteAll(file, <<Line("highest scores ever recorded", <<>>, <<n>>), Separator>>)
    /\ opens' = Opened(opens, <<1, 2>>)
    /\ winner_pointer' = 0
    /\ loser_pointer' = 0
    /\ i' = 1
    /\ pc' = "highest"
    /\ UNCHANGED <<n, emitted, top_results, streakVars, dataVars, collectVarsButPc, allowedVars, main_at>>

\* sorted_loser_matchups[loser_pointer] or sorted_winner_matchups[winner_pointer]
\* is past the end of its list: Python raises IndexError
OutOfRange ==
    \/ loser_pointer >= Len(sorted_loser_matchups)
    \/ winner_pointer >= Len(sorted_winner_matchups)

\* the branch of a merge select's loop body that `picksLoser` selects
MergeEmit(picksLoser) ==
    LET m == IF picksLoser THEN sorted_loser_matchups[loser_pointer + 1]
                           ELSE sorted_winner_matchups[winner_pointer + 1]
        team == IF picksLoser THEN m.loser ELSE m.winner
        score == IF picksLoser THEN m.loser_score ELSE m.winner_score
    IN  /\ file' = WriteToFile(file, ScoredLine(i, team, score, m), TRUE)
        /\ opens' = Append(opens, OpenMode(TRUE))
        /\ emitted' = Append(emitted, [from |-> IF picksLoser THEN "loser" ELSE "winner",
                                       score |-> score])
        /\ loser_pointer' = IF picksLoser THEN loser_pointer + 1 ELSE loser_pointer
        /\ winner_pointer' = IF picksLoser THEN winner_pointer ELSE winner_pointer + 1
        /\ i' = i + 1

HighestPicksLoserFlipped ==
    sorted_loser_matchups[loser_pointer + 1].loser_score
        < sorted_winner_matchups[winner_pointer + 1].winner_score

\* if sorted_loser_matchups[loser_pointer].loser_score
\*        > sorted_winner_matchups[winner_pointer].winner_score
HighestPicksLoser ==
    sorted_loser_matchups[loser_pointer + 1].loser_score
        > sorted_winner_matchups[winner_pointer + 1].winner_score

\* one iteration of highest_score_all_time's for i in range(1, number_of_totals + 1)
HighestStep ==
    /\ pc = "highest"
    /\ i <= n
    /\ IF OutOfRange
       THEN /\ pc' = "IndexError"
            /\ UNCHANGED <<file, opens, emitted, loser_pointer, winner_pointer, i>>
       ELSE /\ MergeEmit(HighestPicksLoser)
            /\ UNCHANGED pc
    /\ UNCHANGED <<n, sorted_winner_matchups, sorted_loser_matchups, top_results, streakVars>>
    /\ UNCHANGED <<dataVars, collectVarsButPc, allowedVars, main_at>>

\* the loop of highest_score_all_time is over: it returns
HighestReturn ==
    /\ pc = "highest"
    /\ i > n
    /\ pc' = "highest_done"
    /\ UNCHANGED <<dataVars, collectVarsButPc, reportVars>>

\* lowest_score_all_time up to its loop, over the regular season only
LowestBegin ==
    /\ pc = "idle"
    /\ sorted_winner_matchups' = Take(SortedBy(regular_season_matchups, "winner_score", FALSE), n)
    /\ sorted_loser_matchups' = Take(SortedBy(regular_season_matchups, "loser_score", FALSE), n)
    /\ file' = WriteAll(file, <<Line("lowest scores ever recorded (regular season only)",
                                     <<>>, <<n>>), Separator>>)
    /\ opens' = Opened(opens, <<1, 2>>)
    /\ winner_pointer' = 0
    /\ loser_pointer' = 0
    /\ i' = 1
    /\ pc' = "lowest"
    /\ UNCHANGED <<n, emitted, top_results, streakVars, dataVars, collectVarsButPc, allowedVars, main_at>>

\* if sorted_loser_matchups[loser_pointer].loser_score
\*        < sorted_winner_matchups[winner_pointer].winner_score
LowestPicksLoser ==
    sorted_loser_matchups[loser_pointer + 1].loser_score
        < sorted_winner_matchups[winner_pointer + 1].winner_score

\* one iteration of lowest_score_all_time's loop
LowestStep ==
    /\ pc = "lowest"
    /\ i <= n
    /\ IF OutOfRange
       THEN /\ pc' = "IndexError"
            /\ UNCHANGED <<file, opens, emitted, loser_pointer, winner_pointer, i>>
       ELSE /\ MergeEmit(LowestPicksLoser)
            /\ UNCHANGED pc
    /\ UNCHANGED <<n, sorted_winner_matchups, sorted_loser_matchups, top_results, streakVars>>
    /\ UNCHANGED <<dataVars, collectVarsButPc, allowedVars, main_at>>

\* the loop of lowest_score_all_time is over: it returns
LowestReturn ==
    /\ pc = "lowest"
    /\ i > n
    /\ pc' = "lowest_done"
    /\ UNCHANGED <<dataVars, collectVarsButPc, reportVars>>

\* #{i}: {winner} won with only {winner_score} points against {loser} who scored
\* {loser_score} in week {week} of {year}.
WonWithOnlyLines(results) ==
    [j \in 1..Len(results) |->
        Line("won with only", <<CoachName(results[j].winner), CoachName(results[j].loser)>>,
             <<j, results[j].winner_score, results[j].loser_score,
               results[j].week, results[j].year>>)]

LowestWinningResultsDescending == Take(SortedBy(matchups, "winner_score", TRUE), n)

\* sorted_matchups = sorted(self.matchups, key=lambda x: x.winner_score)
\* top_results = sorted_matchups[:number_of_totals]
LowestWinningResults == Take(SortedBy(matchups, "winner_score", FALSE), n)

\* lowest_winning_point_totals(number_of_totals)
LowestWinningPointTotals ==
    /\ pc = "idle"
    /\ top_results' = LowestWinningResults
    /\ file' = WriteAll(file, <<Line("lowest winning point totals", <<>>, <<n>>), Separator>>
                              \o WonWithOnlyLines(LowestWinningResults))
    /\ opens' = Opened(opens, <<1, 2>> \o LowestWinningResults)
    /\ pc' = "lowest_winning_done"
    /\ UNCHANGED <<n, i, mergeVars, streakVars, dataVars, collectVarsButPc, allowedVars, main_at>>

ScoresNext ==
    \/ HighestBegin
    \/ HighestStep
    \/ HighestReturn
    \/ LowestBegin
    \/ LowestStep
    \/ LowestReturn
    \/ LowestWinningPointTotals

SpecScores == ScoresInit /\ [][ScoresNext]_vars

-----------------------------------------------------------------------------
(* Claims about the score rankings *)

\* how many records of `seq` satisfy having field `key` equal to v
CountKey(seq, key, v) == Cardinality({j \in 1..Len(seq) : seq[j][key] = v})

\* how many entries a merge select emitted from list `src` with score v
EmittedFrom(src, v) ==
    Cardinality({j \in 1..Len(emitted) : emitted[j].from = src /\ emitted[j].score = v})

EmittedFromNext(src, em) == Cardinality({j \in 1..Len(em) : em[j].from = src})

AllScores ==
    {matchups[j].winner_score : j \in 1..Len(matchups)}
        \cup {matchups[j].loser_score : j \in 1..Len(matchups)}

\* the scores of the winner-sorted (loser-sorted) list not emitted yet
UnemittedWinner == {v \in AllScores : CountKey(matchups, "winner_score", v) > EmittedFrom("winner", v)}
UnemittedLoser == {v \in AllScores : CountKey(matchups, "loser_score", v) > EmittedFrom("loser", v)}

Greatest(S) == CHOOSE v \in S : \A u \in S : u <= v

InHighest == file # <<>> /\ file[1].text = "highest scores ever recorded"

\* C2: whatever n and the record set (n above the number of matchups and the
\* empty record set included), highest_score_all_time(n) and
\* lowest_score_all_time(n) never index a candidate list out of range.
C2_NoOutOfRangeAccess == pc # "IndexError"

\* C3: with at least n >= 1 matchups, highest_score_all_time(n) emits n scores,
\* in non-increasing order, each an entry of the list it was taken from and each
\* >= every score still unemitted in the winner-sorted or the loser-sorted list;
\* when the two next candidates are equal the winner-list one is emitted; each
\* iteration advances exactly the pointer of the list it consumed.
C3_HighestMerge ==
    /\ [](InHighest /\ n >= 1 /\ Len(matchups) >= n =>
            /\ pc \in {"highest", "highest_done"}
            /\ pc = "highest_done" => Len(emitted) = n
            /\ \A j \in 1..(Len(emitted) - 1) : emitted[j].score >= emitted[j + 1].score
            /\ \A v \in AllScores :
                 /\ EmittedFrom("winner", v) <= CountKey(matchups, "winner_score", v)
                 /\ EmittedFrom("loser", v) <= CountKey(matchups, "loser_score", v)
            /\ \A j \in 1..Len(emitted) :
                 \A v \in UnemittedWinner \cup UnemittedLoser : emitted[j].score >= v)
    /\ [][pc = "highest" /\ pc' = "highest" /\ n >= 1 /\ Len(matchups) >= n =>
            LET last == emitted'[Len(emitted')]
            IN  /\ Len(emitted') = Len(emitted) + 1
                /\ Greatest(UnemittedLoser) = Greatest(UnemittedWinner) => last.from = "winner"
                /\ IF last.from = "winner"
                   THEN winner_pointer' = winner_pointer + 1 /\ loser_pointer' = loser_pointer
                   ELSE loser_pointer' = loser_pointer + 1 /\ winner_pointer' = winner_pointer
                /\ winner_pointer' = EmittedFromNext("winner", emitted')
                /\ loser_pointer' = EmittedFromNext("loser", emitted')]_vars

\* C3 witness: a top 3 of three matchups in which a winner score was emitted on
\* a tie with the next loser score, and that loser score after it.
C3_Witness ==
    /\ pc = "highest_done"
    /\ n = 3
    /\ Len(emitted) = 3
    /\ emitted[2].from = "winner"
    /\ emitted[3].from = "loser"
    /\ emitted[2].score = emitted[3].score

\* how many times record r occurs in seq
Occurrences(seq, r) == Cardinality({j \in 1..Len(seq) : seq[j] = r})

\* C9: for n >= 0, lowest_winning_point_totals(n) returns min(n, |all_matchups|)
\* matchups of the record set, in ascending order of winner_score, none with a
\* winner_score above that of a matchup not returned; the record set is unchanged.
C9_LowestWinning ==
    /\ [](pc = "lowest_winning_done" =>
            /\ Len(top_results) = Min(n, Len(matchups))
            /\ \A j \in 1..(Len(top_results) - 1) :
                 top_results[j].winner_score <= top_results[j + 1].winner_score
            /\ \A j \in 1..Len(top_results) :
                 Occurrences(top_results, top_results[j]) <= Occurrences(matchups, top_results[j])
            /\ \A j \in 1..Len(matchups) :
                 Occurrences(top_results, matchups[j]) < Occurrences(matchups, matchups[j]) =>
                    \A k \in 1..Len(top_results) :
                        top_results[k].winner_score <= matchups[j].winner_score)
    /\ [][UNCHANGED dataVars]_vars

\* C9 witness: two of three matchups returned, the first of the record set not
\* among them.
C9_Witness ==
    /\ pc = "lowest_winning_done"
    /\ n = 2
    /\ Len(matchups) = 3
    /\ Len(top_results) = 2
    /\ Occurrences(top_results, matchups[1]) = 0
    /\ top_results[1].winner_score < top_results[2].winner_score

-----------------------------------------------------------------------------
(* streaks *)

MaxStreakWeeks == 4    \* the record sets of streaks span at most this many weeks
TwiceWeeks == 3        \* the same, for the record sets streaks is run twice over

\* the values of number_of_streaks
StreakCounts == {1, 2}

\* _get_coaches_from_matchups: the set the list of coaches is made from
CoachSet(ms) ==
    {CoachName(ms[j].winner) : j \in 1..Len(ms)} \cup {CoachName(ms[j].loser) : j \in 1..Len(ms)}

\* {'coach': coach, 'streak': ..., 'end_year': matchup.year, 'end_week': matchup.week}
StreakEntry(c, len, m) ==
    [coach |-> c, streak |-> len, end_year |-> m.year, end_week |-> m.week]

RECURSIVE PopWhile(_, _, _)
\* while len(list) > number_of_streaks and list[-1]['streak'] < streak: list.pop()
PopWhile(list, count, len) ==
    IF Len(list) > count /\ list[Len(list)].streak < len
    THEN PopWhile(SubSeq(list, 1, Len(list) - 1), count, len)
    ELSE list

InsertStreakBeforeTies(list, e, count) ==
    LET places == {k \in 0..(count - 1) : k >= Len(list) \/ e.streak >= list[k + 1].streak}
        at == CHOOSE k \in places : \A k2 \in places : k <= k2
    IN  IF places = {} THEN list
        ELSE PopWhile(SubSeq(list, 1, at) \o <<e>> \o SubSeq(list, at + 1, Len(list)),
                      count, e.streak + 1)

\* for i in range(number_of_streaks): if i >= len(list) or streak > list[i]['streak']:
\*     list.insert(i, entry); while ...: list.pop(); break
InsertStreak(list, e, count) ==
    LET places == {k \in 0..(count - 1) : k >= Len(list) \/ e.streak > list[k + 1].streak}
        at == CHOOSE k \in places : \A k2 \in places : k <= k2
    IN  IF places = {} THEN list
        ELSE PopWhile(SubSeq(list, 1, at) \o <<e>> \o SubSeq(list, at + 1, Len(list)),
                      count, e.streak)

\* the state of one coach's walk: the counters, the two lists, the insertions tried
WalkStart == [win |-> 0, loss |-> 0, winning |-> winning_streaks, losing |-> losing_streaks,
              log |-> <<>>]

\* the counters start over at the coach's own week-1 matchup only
ResetsAtWeekOneOfCoach(m, c) ==
    m.week = 1 /\ c \in {CoachName(m.winner), CoachName(m.loser)}

ResetsNever(m, c) == FALSE

\* if matchup.week == 1: the counters start over
ResetsAtWeekOne(m, c) == m.week = 1

\* the body of for matchup in sorted_matchups, for coach c
WalkStep(s, m, c) ==
    IF m.matchup_type # REGULAR /\ regular_season_only THEN s
    ELSE LET r == IF ResetsAtWeekOne(m, c) THEN [s EXCEPT !.win = 0, !.loss = 0] ELSE s
         IN  IF CoachName(m.winner) = c
             THEN LET e == StreakEntry(c, r.loss, m)
                      after == InsertStreak(r.losing, e, n)
                  IN  IF r.loss > 0
                      THEN [r EXCEPT !.losing = after, !.win = r.win + 1, !.loss = 0,
                                     !.log = Append(r.log, [kind |-> "losing", before |-> r.losing,
                                                            entry |-> e, after |-> after])]
                      ELSE [r EXCEPT !.win = r.win + 1, !.loss = 0]
             ELSE IF CoachName(m.loser) = c
             THEN LET e == StreakEntry(c, r.win, m)
                      after == InsertStreak(r.winning, e, n)
                  IN  IF r.win > 0
                      THEN [r EXCEPT !.winning = after, !.loss = r.loss + 1, !.win = 0,
                                     !.log = Append(r.log, [kind |-> "winning", before |-> r.winning,
                                                            entry |-> e, after |-> after])]
                      ELSE [r EXCEPT !.loss = r.loss + 1, !.win = 0]
             ELSE r

RECURSIVE Walk(_, _, _, _)
\* for matchup in sorted_matchups, from the k-th matchup on
Walk(s, ms, k, c) ==
    IF k > Len(ms) THEN s
    ELSE Walk(CHOOSE after \in {WalkStep(before, ms[k], c) : before \in {s}} : TRUE,
              ms, k + 1, c)

\* v put into a non-increasing sequence of lengths (bookkeeping of `closed`)
InsertDesc(seq, v) ==
    LET k == Cardinality({j \in 1..Len(seq) : seq[j] >= v})
    IN  SubSeq(seq, 1, k) \o <<v>> \o SubSeq(seq, k + 1, Len(seq))

RECURSIVE Submitted(_, _)
\* `closed` after the insertions of a walk's log
Submitted(cl, log) ==
    IF log = <<>> THEN cl
    ELSE Submitted([cl EXCEPT ![Head(log).kind] = InsertDesc(@, Head(log).entry.streak)],
                   Tail(log))

\* #{i}: {coach} with a winning streak of {streak} ending in week {end_week} of {end_year}.
StreakLines(text, list) ==
    [j \in 1..Len(list) |->
        Line(text, <<list[j].coach>>, <<j, list[j].streak, list[j].end_week, list[j].end_year>>)]

\* the two blocks streaks writes
StreakReport ==
    LET season == IF regular_season_only THEN "Regular Season " ELSE ""
    IN  <<Line("Winning streaks", <<season>>, <<n>>), Separator>>
        \o StreakLines("with a winning streak of", winning_streaks)
        \o <<Line("Losing streaks", <<season>>, <<n>>), Separator>>
        \o StreakLines("with a losing streak of", losing_streaks)

\* streaks up to its loop over the coaches
StreaksBegin ==
    /\ pc = "idle"
    /\ Len(reports) < calls
    /\ coaches' = CoachSet(matchups)
    /\ losing_streaks' = <<>>
    /\ winning_streaks' = <<>>
    /\ walk_log' = <<>>
    /\ closed' = [winning |-> <<>>, losing |-> <<>>]
    /\ pc' = "streaks"
    /\ UNCHANGED <<coach, win_streak, loss_streak, regular_season_only, reports, calls>>
    /\ UNCHANGED <<n, i, mergeVars, top_results, fileVars, dataVars, collectVarsButPc, allowedVars, main_at>>

\* one iteration of for coach in coaches: list(set) yields the coaches in an
\* order the language does not fix
StreakCoach ==
    /\ pc = "streaks"
    /\ \E sorted_matchups \in {SortedBy(matchups, "year, week", FALSE)} :
         \E c \in coaches :
         \E s \in {Walk(WalkStart, sorted_matchups, 1, c)} :
             /\ coach' = c
             /\ coaches' = coaches \ {c}
             /\ win_streak' = s.win
             /\ loss_streak' = s.loss
             /\ winning_streaks' = s.winning
             /\ losing_streaks' = s.losing
             /\ walk_log' = s.log
             /\ closed' = Submitted(closed, s.log)
    /\ UNCHANGED <<pc, regular_season_only, reports, calls>>
    /\ UNCHANGED <<n, i, mergeVars, top_results, fileVars, dataVars, collectVarsButPc, allowedVars, main_at>>

\* the coaches are exhausted: streaks writes its two blocks and returns
StreaksReturn ==
    /\ pc = "streaks"
    /\ coaches = {}
    /\ file' = WriteAll(file, StreakReport)
    /\ opens' = Opened(opens, StreakReport)
    /\ reports' = Append(reports, StreakReport)
    /\ pc' = "idle"
    /\ UNCHANGED <<regular_season_only, coaches, coach, win_streak, loss_streak,
                   winning_streaks, losing_streaks, walk_log, closed, calls>>
    /\ UNCHANGED <<n, i, mergeVars, top_results, dataVars, collectVarsButPc, allowedVars, main_at>>

\* The record sets of streaks: TeamA plays TeamB and then TeamC plays TeamD in
\* every week; `outs[j]` says whether TeamA and whether TeamC won week j.
StreakWeek(out, wk, yr, type) ==
    <<DateMatchup(RawMatchup(TeamA, IF out[1] THEN 6 ELSE 2, TeamB, IF out[1] THEN 2 ELSE 6, type),
                  wk, yr),
      DateMatchup(RawMatchup(TeamC, IF out[2] THEN 6 ELSE 2, TeamD, IF out[2] THEN 2 ELSE 6, type),
                  wk, yr)>>

RECURSIVE StreakSeasons(_, _, _, _)
\* weeks 1..w: the first `split` of them are the season of FirstYear, the rest
\* the next season; with `po` the last week is a playoff week
StreakSeasons(w, split, outs, po) ==
    IF w = 0 THEN <<>>
    ELSE StreakSeasons(w - 1, split, outs, FALSE)
         \o StreakWeek(outs[w],
                       IF w <= split THEN w ELSE w - split,
                       IF w <= split THEN FirstYear ELSE FirstYear + 1,
                       IF po THEN PLAYOFF ELSE REGULAR)

\* streaks called `times` times over a record set of at most `weeks` weeks
StreakInputs(weeks, times) ==
    /\ \E w \in 0..weeks :
         \E split \in (IF w = 0 THEN {0} ELSE 1..w), outs \in [1..w -> BOOLEAN \X BOOLEAN],
            po \in BOOLEAN :
            \* the coaches are interchangeable: TeamA and TeamC win the first week
            /\ w >= 1 => outs[1] = <<TRUE, TRUE>>
            \* a playoff week ends a season of at least two weeks
            /\ po => (IF split = w THEN w >= 2 ELSE w - split >= 2)
            \* without a playoff week regular_season_only changes nothing
            /\ po \/ regular_season_only
            /\ matchups = StreakSeasons(w, split, outs, po)
            /\ regular_season_matchups = SelectSeqBy(StreakSeasons(w, split, outs, po), REGULAR)
    /\ file = <<>>
    /\ opens = <<>>
    /\ pc = "idle"
    /\ year = FirstYear
    /\ week = 0
    /\ retry = 0
    /\ current_week = 0
    /\ end_year = FirstYear
    /\ now_year = FirstYear
    /\ attempts = 0
    /\ raw_log = <<>>
    /\ n \in StreakCounts
    /\ StatIdle
    /\ NoCaller
    /\ calls = times

StreaksInit == regular_season_only \in BOOLEAN /\ StreakInputs(MaxStreakWeeks, 1)

TwiceInit == regular_season_only \in BOOLEAN /\ StreakInputs(TwiceWeeks, 2)

StreaksNext ==
    \/ StreaksBegin
    \/ StreakCoach
    \/ StreaksReturn

SpecStreaks == StreaksInit /\ [][StreaksNext]_vars

SpecStreaksTwice == TwiceInit /\ [][StreaksNext]_vars

-----------------------------------------------------------------------------
(* Claims about streaks *)

\* the games of coach c that streaks counts, in season y before week w
GamesBefore(c, y, w) ==
    SelectSeq(matchups,
              LAMBDA m : /\ ~(regular_season_only /\ m.matchup_type # REGULAR)
                         /\ m.year = y /\ m.week < w
                         /\ c \in {CoachName(m.winner), CoachName(m.loser)})

RECURSIVE TrailingRun(_, _, _)
\* how many games at the end of `games` coach c lost (lost = TRUE) or won in a row
TrailingRun(games, c, lost) ==
    IF games = <<>> THEN 0
    ELSE LET g == games[Len(games)]
         IN  IF CoachName(IF lost THEN g.loser ELSE g.winner) = c
             THEN 1 + TrailingRun(SubSeq(games, 1, Len(games) - 1), c, lost)
             ELSE 0

\* C1: every entry of the losing-streak list has as its length the number of
\* games its coach lost in a row, within the season, right before the win that
\* closed the streak, a loss in week 1 included wherever that matchup stands
\* among the week-1 matchups; the same for the winning-streak list.
C1_StreakLengths ==
    /\ \A j \in 1..Len(losing_streaks) :
         LET e == losing_streaks[j]
         IN  e.streak = TrailingRun(GamesBefore(e.coach, e.end_year, e.end_week), e.coach, TRUE)
    /\ \A j \in 1..Len(winning_streaks) :
         LET e == winning_streaks[j]
         IN  e.streak = TrailingRun(GamesBefore(e.coach, e.end_year, e.end_week), e.coach, FALSE)

\* C6: two runs of streaks over the same record set write the same blocks.
C6_SameReportTwice == Len(reports) = 2 => reports[1] = reports[2]

\* list is non-increasing by streak length and holds at most `count` entries
Ranked(list, count) ==
    /\ Len(list) <= count
    /\ \A j \in 1..(Len(list) - 1) : list[j].streak >= list[j + 1].streak

\* an insertion whose streak is as long as an entry already in the list
IsTie(ev) == \E j \in 1..Len(ev.before) : ev.before[j].streak = ev.entry.streak

\* ev.before with ev.entry put after the entries at least as long, cut to count
PlacedAfterTies(ev, count) ==
    LET k == Cardinality({j \in 1..Len(ev.before) : ev.before[j].streak >= ev.entry.streak})
    IN  Take(SubSeq(ev.before, 1, k) \o <<ev.entry>> \o SubSeq(ev.before, k + 1, Len(ev.before)),
             count)

Lengths(list) == [j \in 1..Len(list) |-> list[j].streak]

\* at the end each list holds the n greatest lengths submitted for it
HoldsGreatest ==
    pc = "idle" /\ Len(reports) = 1 =>
        /\ Lengths(winning_streaks) = Take(closed.winning, n)
        /\ Lengths(losing_streaks) = Take(closed.losing, n)

Considered ==
    SelectSeq(matchups, LAMBDA m : ~(regular_season_only /\ m.matchup_type # REGULAR))

\* entry e of a list of streaks of losses (lost = TRUE) or of wins was closed by
\* a game of the opposite result of its coach, and counts games of the season
\* of that game only
ClosedInSeason(e, lost) ==
    /\ e.streak >= 1
    /\ \E j \in 1..Len(matchups) :
         /\ matchups[j].year = e.end_year
         /\ matchups[j].week = e.end_week
         /\ ~(regular_season_only /\ matchups[j].matchup_type # REGULAR)
         /\ CoachName(IF lost THEN matchups[j].winner ELSE matchups[j].loser) = e.coach
    /\ e.streak <= TrailingRun(GamesBefore(e.coach, e.end_year, e.end_week), e.coach, lost)

\* no two entries of the list stand for the same closing game
OnePerClosingGame(list) ==
    \A j \in 1..Len(list), k \in 1..Len(list) :
        j # k => <<list[j].coach, list[j].end_year, list[j].end_week>>
                 # <<list[k].coach, list[k].end_year, list[k].end_week>>

\* C12: every entry of the two ranked lists was closed by a game of the
\* opposite result of the same coach and counts no game of an earlier season;
\* each closing game stands for at most one entry, so a streak still open at
\* the end of the walk, or cut by the week-1 reset, is in neither list.
C12_OnlyClosedStreaks ==
    /\ \A j \in 1..Len(losing_streaks) : ClosedInSeason(losing_streaks[j], TRUE)
    /\ \A j \in 1..Len(winning_streaks) : ClosedInSeason(winning_streaks[j], FALSE)
    /\ OnePerClosingGame(losing_streaks)
    /\ OnePerClosingGame(winning_streaks)

\* coach c lost the last game of the first season and won week 1 of the next
CutByReset(c) ==
    \E j \in 1..Len(Considered), k \in 1..Len(Considered) :
        /\ Considered[j].year = FirstYear /\ CoachName(Considered[j].loser) = c
        /\ \A j2 \in 1..Len(Considered) :
              Considered[j2].year = FirstYear => Considered[j2].week <= Considered[j].week
        /\ Considered[k].year = FirstYear + 1 /\ Considered[k].week = 1
        /\ CoachName(Considered[k].winner) = c

\* C12 witness: streaks has returned with entries in both lists; the coach
\* visited last ended the walk with an open streak of two games, and a coach's
\* losing streak was cut by the week-1 reset.
C12_Witness ==
    /\ pc = "idle" /\ Len(reports) = 1
    /\ losing_streaks # <<>> /\ winning_streaks # <<>>
    /\ win_streak >= 2 \/ loss_streak >= 2
    /\ \E c \in CoachSet(matchups) : CutByReset(c)

-----------------------------------------------------------------------------
(* season_points_allowed *)

MaxAllowed == 3        \* the record sets of season_points_allowed hold at most this many

\* Scores are counted in units of 0.005 point
Points(p) == 200 * p

Alice == Owner("Alice", "Adams")
Bob == Owner("Bob", "Baker")

\* Alice beats Bob 100-90 in week 1 of 2023, Bob beats Alice 110-95 in week 1 of 2024
Fixture ==
    <<DateMatchup(RawMatchup(Alice, Points(100), Bob, Points(90), REGULAR), 1, 2023),
      DateMatchup(RawMatchup(Alice, Points(95), Bob, Points(110), REGULAR), 1, 2024)>>

\* if regular_season_only: self.regular_season_matchups, else: self.matchups
MatchupsToConsider == IF regular_season_only THEN regular_season_matchups ELSE matchups

InYearsOpenEnded(m) == m.year >= start_year

\* if matchup.year <= end_year and matchup.year >= start_year
InYears(m) == m.year <= allowed_end_year /\ m.year >= start_year

\* name + "," + str(matchup.year); coach and year are what split(",") gives back
\* for a name that holds no comma
CoachYear(team, yr) ==
    [key |-> CoachName(team) \o "," \o ToString(yr), coach |-> CoachName(team), year |-> yr]

\* d.get(key, 0), d a dictionary kept as the sequence of its items
Get(d, key) ==
    IF \E j \in 1..Len(d) : d[j].key = key
    THEN d[CHOOSE j \in 1..Len(d) : d[j].key = key].value
    ELSE 0

\* d[ck.key] = value: a key already there keeps its place, a new one goes last
Put(d, ck, value) ==
    LET item == [key |-> ck.key, coach |-> ck.coach, year |-> ck.year, value |-> value]
    IN  IF \E j \in 1..Len(d) : d[j].key = ck.key
        THEN [j \in 1..Len(d) |-> IF d[j].key = ck.key THEN item ELSE d[j]]
        ELSE Append(d, item)

\* the two assignments of the loop body
Allow(d, m) ==
    LET winner_coach == CoachYear(m.winner, m.year)
        loser_coach == CoachYear(m.loser, m.year)
        d1 == Put(d, winner_coach, m.loser_score + Get(d, winner_coach.key))
    IN  Put(d1, loser_coach, m.winner_score + Get(d1, loser_coach.key))

\* #{i}: {coach} in {year} allowed [only] {round(points, 2)} points.
AllowedLines(text, items) ==
    [j \in 1..Len(items) |->
        Line(text, <<items[j].coach>>, <<j, items[j].year, Round2(items[j].value)>>)]

\* the two blocks season_points_allowed writes
AllowedReport ==
    <<Line("Highest season points allowed", <<>>, <<start_year, allowed_end_year>>), Separator>>
    \o AllowedLines("allowed", Take(SortedBy(points_allowed, "value", TRUE), n))
    \o <<Line("Lowest season points allowed", <<>>, <<start_year, allowed_end_year>>), Separator>>
    \o AllowedLines("allowed only", Take(SortedBy(points_allowed, "value", FALSE), n))

\* season_points_allowed up to its loop
AllowedBegin ==
    /\ pc = "idle"
    /\ points_allowed' = <<>>
    /\ i' = 0
    /\ pc' = "allowed"
    /\ UNCHANGED <<start_year, allowed_end_year, main_at>>
    /\ UNCHANGED <<n, mergeVars, top_results, streakVars, fileVars, dataVars, collectVarsButPc>>

\* one iteration of for matchup in matchups_to_consider
AllowedStep ==
    /\ pc = "allowed"
    /\ i < Len(MatchupsToConsider)
    /\ points_allowed' = IF InYears(MatchupsToConsider[i + 1])
                         THEN Allow(points_allowed, MatchupsToConsider[i + 1])
                         ELSE points_allowed
    /\ i' = i + 1
    /\ UNCHANGED <<pc, start_year, allowed_end_year, main_at>>
    /\ UNCHANGED <<n, mergeVars, top_results, streakVars, fileVars, dataVars, collectVarsButPc>>

\* the loop is over: season_points_allowed writes its two blocks and returns
AllowedReturn ==
    /\ pc = "allowed"
    /\ i = Len(MatchupsToConsider)
    /\ file' = WriteAll(file, AllowedReport)
    /\ opens' = Opened(opens, AllowedReport)
    /\ pc' = "allowed_done"
    /\ UNCHANGED <<allowedVars, main_at>>
    /\ UNCHANGED <<n, i, mergeVars, top_results, streakVars, dataVars, collectVarsButPc>>

\* The scores of the generated record sets: home and away
AllowedRaws == {<<6, 2>>, <<3, 3>>, <<6, 3>>}

\* `len` matchups, one a week, TeamA at home against TeamB and TeamC in turn;
\* the first `split` are the season of FirstYear, the rest the next season;
\* with `po` the last one is a playoff matchup
AllowedSeasons(len, split, scores, po) ==
    [j \in 1..len |->
        DateMatchup(RawMatchup(TeamA, scores[j][1],
                               IF j % 2 = 1 THEN TeamB ELSE TeamC, scores[j][2],
                               IF po /\ j = len THEN PLAYOFF ELSE REGULAR),
                    IF j <= split THEN j ELSE j - split,
                    IF j <= split THEN FirstYear ELSE FirstYear + 1)]

AllowedInit ==
    /\ \/ /\ matchups = Fixture
          /\ regular_season_matchups = SelectSeqBy(Fixture, REGULAR)
       \/ \E len \in 0..MaxAllowed :
            \E split \in 0..len, scores \in [1..len -> AllowedRaws], po \in BOOLEAN :
               /\ po => len >= 1
               /\ matchups = AllowedSeasons(len, split, scores, po)
               /\ regular_season_matchups = SelectSeqBy(AllowedSeasons(len, split, scores, po), REGULAR)
    /\ start_year \in Years
    /\ allowed_end_year \in Years
    /\ regular_season_only \in BOOLEAN
    /\ n \in {1, 5}
    /\ file = <<>>
    /\ opens = <<>>
    /\ pc = "idle"
    /\ year = FirstYear
    /\ week = 0
    /\ retry = 0
    /\ current_week = 0
    /\ end_year = FirstYear
    /\ now_year = FirstYear
    /\ attempts = 0
    /\ raw_log = <<>>
    /\ calls = 0
    /\ main_at = 0
    /\ StatIdle

AllowedNext ==
    \/ AllowedBegin
    \/ AllowedStep
    \/ AllowedReturn

SpecAllowed == AllowedInit /\ [][AllowedNext]_vars

-----------------------------------------------------------------------------
(* Claims about season_points_allowed *)

RECURSIVE OpponentsTotal(_, _, _, _)
\* what the opponents of coach c scored against c in season yr, over the first
\* k matchups of ms
OpponentsTotal(ms, k, c, yr) ==
    IF k = 0 THEN 0
    ELSE OpponentsTotal(ms, k - 1, c, yr)
         + (IF ms[k].year = yr /\ CoachName(ms[k].winner) = c THEN ms[k].loser_score ELSE 0)
         + (IF ms[k].year = yr /\ CoachName(ms[k].loser) = c THEN ms[k].winner_score ELSE 0)

\* coach c played one of the first k matchups of ms, in season yr
Played(ms, k, c, yr) ==
    \E j \in 1..k : ms[j].year = yr /\ c \in {CoachName(ms[j].winner), CoachName(ms[j].loser)}

CoachNames == {CoachName(t) : t \in {TeamA, TeamB, TeamC, TeamD, Alice, Bob}}

\* the value points_allowed holds for coach c and season yr, -1 if it holds none
AllowedTo(c, yr) ==
    LET at == {j \in 1..Len(points_allowed) :
                  points_allowed[j].coach = c /\ points_allowed[j].year = yr}
    IN  IF at = {} THEN -1 ELSE points_allowed[CHOOSE j \in at : TRUE].value

\* C7: while season_points_allowed runs and after it, points_allowed holds one
\* item for every coach and season in [start_year, end_year] the coach played
\* in among the matchups handled so far, its value the sum of the opponents'
\* scores over those matchups, and no item for a season out of the range; for
\* the fixture of Alice and Bob the four values are 90, 100, 110 and 95.
C7_PointsAllowed ==
    pc \in {"allowed", "allowed_done"} =>
        /\ \A c \in CoachNames, yr \in (FirstYear - 1)..(FirstYear + 2) :
             /\ Cardinality({j \in 1..Len(points_allowed) :
                                points_allowed[j].key = c \o "," \o ToString(yr)})
                  = (IF yr >= start_year /\ yr <= allowed_end_year
                        /\ Played(MatchupsToConsider, i, c, yr) THEN 1 ELSE 0)
             /\ yr >= start_year /\ yr <= allowed_end_year
                /\ Played(MatchupsToConsider, i, c, yr)
                => AllowedTo(c, yr) = OpponentsTotal(MatchupsToConsider, i, c, yr)
        /\ \A j \in 1..Len(points_allowed) :
             /\ points_allowed[j].coach \in CoachNames
             /\ points_allowed[j].key
                  = points_allowed[j].coach \o "," \o ToString(points_allowed[j].year)
        /\ matchups = Fixture /\ pc = "allowed_done"
           /\ start_year = 2023 /\ allowed_end_year = 2024
           => /\ AllowedTo("Alice Adams", 2023) = Points(90)
              /\ AllowedTo("Bob Baker", 2023) = Points(100)
              /\ AllowedTo("Alice Adams", 2024) = Points(110)
              /\ AllowedTo("Bob Baker", 2024) = Points(95)

\* C7 witness: season_points_allowed(2023, 2024) has returned over the fixture
\* of Alice and Bob, with the four items.
C7_Witness ==
    /\ pc = "allowed_done"
    /\ matchups = Fixture
    /\ start_year = 2023 /\ allowed_end_year = 2024
    /\ Len(points_allowed) = 4
    /\ AllowedTo("Alice Adams", 2024) = Points(110)

-----------------------------------------------------------------------------
(* main: the report operations in the order main calls them, after get_data *)

MaxMainMatchups == 6   \* the record sets of a run of main hold at most this many
DefaultTotals == 5     \* number_of_totals: int = 5, number_of_teams: int = 5

\* an optional argument: None, or a value
None == <<>>
Some(v) == <<v>>

\* seq[:count], count an optional argument
Slice(seq, count) == IF count = None THEN seq ELSE Take(seq, count[1])

\* #{i}: {loser} lost despite scoring {loser_score} points against {winner} who
\* scored {winner_score} in week {week} of {year}.
LostDespiteLines(results) ==
    [j \in 1..Len(results) |->
        Line("lost despite scoring", <<CoachName(results[j].loser), CoachName(results[j].winner)>>,
             <<j, results[j].loser_score, results[j].winner_score,
               results[j].week, results[j].year>>)]

\* highest_losing_point_total(number_of_totals)
HighestLosingPointTotal ==
    LET results == Take(SortedBy(matchups, "loser_score", TRUE), n)
        block == <<Line("highest losing point totals", <<>>, <<n>>), Separator>>
                 \o LostDespiteLines(results)
    IN  /\ pc = "idle"
        /\ top_results' = results
        /\ file' = WriteAll(file, block)
        /\ opens' = Opened(opens, block)
        /\ pc' = "highest_losing_done"
        /\ UNCHANGED <<n, i, mergeVars, streakVars, dataVars, collectVarsButPc, allowedVars, main_at>>

\* #{i}: {winner} won with {winner_score} points against {loser} with
\* {loser_score} points in week {week} of {year}. Difference: {difference} points.
ClosestLines(results) ==
    [j \in 1..Len(results) |->
        Line("won with", <<CoachName(results[j].winner), CoachName(results[j].loser)>>,
             <<j, results[j].winner_score, results[j].loser_score,
               results[j].week, results[j].year, results[j].difference>>)]

\* closest_game(number_of_totals)
ClosestGame ==
    LET results == Take(SortedBy(matchups, "difference", FALSE), n)
        block == <<Line("closest games", <<>>, <<n>>), Separator>> \o ClosestLines(results)
    IN  /\ pc = "idle"
        /\ top_results' = results
        /\ file' = WriteAll(file, block)
        /\ opens' = Opened(opens, block)
        /\ pc' = "closest_done"
        /\ UNCHANGED <<n, i, mergeVars, streakVars, dataVars, collectVarsButPc, allowedVars, main_at>>

\* team_points and number_games after one more side of a matchup: a coach
\* already there keeps the place, a new one goes last
Score(d, c, score) ==
    IF \E j \in 1..Len(d) : d[j].coach = c
    THEN [j \in 1..Len(d) |->
            IF d[j].coach = c
            THEN [coach |-> c, points |-> score + d[j].points, games |-> d[j].games + 1]
            ELSE d[j]]
    ELSE Append(d, [coach |-> c, points |-> score, games |-> 1])

RECURSIVE TeamPoints(_, _)
\* team_points and number_games after the first k matchups to consider
TeamPoints(ms, k) ==
    IF k = 0 THEN <<>>
    ELSE Score(Score(TeamPoints(ms, k - 1), CoachName(ms[k].winner), ms[k].winner_score),
               CoachName(ms[k].loser), ms[k].loser_score)

\* x[1] / number_games[x[0]] <= y[1] / number_games[y[0]]
AverageLeq(x, y) == x.points * y.games <= y.points * x.games

RECURSIVE SortedByAverage(_)
\* sorted(team_points.items(), key=lambda x: x[1] / number_games[x[0]], reverse=True)
SortedByAverage(seq) ==
    IF seq = <<>> THEN <<>>
    ELSE LET rest == SortedByAverage(SubSeq(seq, 1, Len(seq) - 1))
             x == seq[Len(seq)]
             k == Cardinality({j \in 1..Len(rest) : AverageLeq(x, rest[j])})
         IN  SubSeq(rest, 1, k) \o <<x>> \o SubSeq(rest, k + 1, Len(rest))

\* round(points / games, 2)
Round2Ratio(points, games) ==
    IF points % games = 0 THEN Round2(points \div games)
    ELSE IF (points \div games) % 2 = 0 THEN points \div games ELSE (points \div games) + 1

\* the two blocks lifetime_top_scorers writes
LifetimeReport(number_of_teams) ==
    LET team_points == TeamPoints(MatchupsToConsider, Len(MatchupsToConsider))
        sorted_teams == Slice(SortedBy(team_points, "points", TRUE), number_of_teams)
        sorted_teams_avg == Slice(SortedByAverage(team_points), number_of_teams)
    IN  <<Line("lifetime top scorers", <<>>, <<>>), Separator>>
        \o [j \in 1..Len(sorted_teams) |->
              Line("total points scored", <<sorted_teams[j].coach>>,
                   <<j, Round2(sorted_teams[j].points)>>)]
        \o <<Line("lifetime average top scorers", <<>>, <<>>), Separator>>
        \o [j \in 1..Len(sorted_teams_avg) |->
              Line("points per game", <<sorted_teams_avg[j].coach>>,
                   <<j, Round2Ratio(sorted_teams_avg[j].points, sorted_teams_avg[j].games)>>)]

\* lifetime_top_scorers(number_of_teams)
LifetimeTopScorers(number_of_teams) ==
    /\ pc = "idle"
    /\ file' = WriteAll(file, LifetimeReport(number_of_teams))
    /\ opens' = Opened(opens, LifetimeReport(number_of_teams))
    /\ pc' = "lifetime_done"
    /\ UNCHANGED <<n, i, mergeVars, top_results, streakVars, dataVars, collectVarsButPc,
                   allowedVars, main_at>>

\* the lines of main that call a report operation, and the line after the last
MainLines == <<20, 22, 24, 26, 28, 30, 32, 33>>

MainLowestWinning == main_at = 20 /\ LowestWinningPointTotals
MainHighestLosing == main_at = 22 /\ HighestLosingPointTotal
MainHighestScore == main_at = 24 /\ (HighestBegin \/ HighestStep \/ HighestReturn)
MainLowestScore == main_at = 26 /\ (LowestBegin \/ LowestStep \/ LowestReturn)
MainClosestGame == main_at = 28 /\ ClosestGame
MainLifetime == main_at = 30 /\ LifetimeTopScorers(None)
MainPointsAllowed == main_at = 32 /\ (AllowedBegin \/ AllowedStep \/ AllowedReturn)

\* the operation called has returned: main goes on to its next statement
MainReturned ==
    /\ pc \in {"lowest_winning_done", "highest_losing_done", "highest_done", "lowest_done",
               "closest_done", "lifetime_done", "allowed_done"}
    /\ \E k \in 1..(Len(MainLines) - 1) :
         main_at = MainLines[k] /\ main_at' = MainLines[k + 1]
    /\ pc' = "idle"
    /\ UNCHANGED <<dataVars, collectVarsButPc, fileVars, statVars>>

\* The scores of the record sets of a run, home and away, by position
MainScores == <<<<6, 2>>, <<3, 3>>, <<6, 3>>, <<2, 2>>, <<6, 6>>, <<3, 2>>>>

\* `len` matchups, one a week, TeamA at home against TeamB and TeamC at home
\* against TeamD in turn; the first half are the season of FirstYear, the rest
\* the next season, of which the matchups after the first `reg` are playoffs
MainSeasons(len, reg) ==
    [j \in 1..len |->
        LET scores == MainScores[((j - 1) % Len(MainScores)) + 1]
            split == (len + 1) \div 2
        IN  DateMatchup(RawMatchup(IF j % 2 = 1 THEN TeamA ELSE TeamC, scores[1],
                                   IF j % 2 = 1 THEN TeamB ELSE TeamD, scores[2],
                                   IF j <= reg THEN REGULAR ELSE PLAYOFF),
                        IF j <= split THEN j ELSE j - split,
                        IF j <= split THEN FirstYear ELSE FirstYear + 1)]

\* what an earlier run left in the output file
OldLine == Line("left by an earlier run", <<>>, <<>>)

\* get_data has returned; the output file is absent or left by an earlier run
MainInit ==
    /\ \E len \in 0..MaxMainMatchups :
         \E reg \in 0..len :
            /\ matchups = MainSeasons(len, reg)
            /\ regular_season_matchups = SelectSeqBy(MainSeasons(len, reg), REGULAR)
    /\ file \in {<<>>, <<OldLine>>}
    /\ opens = <<>>
    /\ pc = "idle"
    /\ main_at = MainLines[1]
    /\ n = DefaultTotals
    /\ regular_season_only = TRUE
    /\ start_year = FirstYear
    /\ allowed_end_year = FirstYear + 1
    /\ year = FirstYear + 3
    /\ week = 0
    /\ retry = 0
    /\ current_week = 0
    /\ end_year = FirstYear + 2
    /\ now_year = FirstYear + 2
    /\ attempts = 0
    /\ raw_log = <<>>
    /\ calls = 0
    /\ StatIdle

MainNext ==
    \/ MainLowestWinning
    \/ MainHighestLosing
    \/ MainHighestScore
    \/ MainLowestScore
    \/ MainClosestGame
    \/ MainLifetime
    \/ MainPointsAllowed
    \/ MainReturned

SpecMain == MainInit /\ [][MainNext]_vars

-----------------------------------------------------------------------------
(* Claims about the output file *)

\* C8: the first report write of a run opens the output file in overwrite mode
\* and every later one in append mode, so the file holds only the lines the
\* run wrote.
C8_OverwriteFirst ==
    /\ opens # <<>> => opens[1] = "w"
    /\ \A j \in 2..Len(opens) : opens[j] = "a"
    /\ opens # <<>> => Len(file) = Len(opens) /\ \A j \in 1..Len(file) : file[j] # OldLine

====
